---- MODULE Spec2Model ----
(***************************************************************************)
(* Model of z9th3/raspi-monitor:                                           *)
(*   - trim_heartbeat_log.js  : the log retention filter trimHeartbeatLog  *)
(*   - raspberry_heartbeat.js : the status publisher (updateGithubFile     *)
(*                              and the retry loop of main)                *)
(*                                                                         *)
(* Text is modelled structurally.  A file is a sequence of characters; a   *)
(* character is either the newline NL or a fragment, a run of text without *)
(* a newline that carries at most one "at <stamp> UTC" part.  A line is a   *)
(* sequence of fragments.  A JavaScript Date is [nan, sec, ms]: epoch      *)
(* seconds and the millisecond part are kept apart because epoch           *)
(* milliseconds do not fit the integers of the model checker.              *)
(***************************************************************************)
EXTENDS Integers, Sequences, FiniteSets, TLC

(***************************************************************************)
(* Bounds of the model                                                     *)
(***************************************************************************)
MaxLines == 3
MaxRuns == 2

(***************************************************************************)
(* Dates                                                                   *)
(***************************************************************************)
SecPerDay == 86400

SecPerHour == 3600

SecPerMin == 60

\* config.log_days_to_keep: a number, or undefined when the option is
\* missing from config.json (NaN in arithmetic, "undefined" in a template).
Days(n) == [kind |-> "num", v |-> n]

UndefinedDays == [kind |-> "undefined", v |-> 0]

\* The option given as a JSON string: one that spells the number n, and one
\* that spells no number.
StringDays(n) == [kind |-> "numstr", v |-> n]

TextDays == [kind |-> "text", v |-> 0]

\* Variant: a value that is no number counts as 0.
ToNumberOrZero(days) ==
  IF days.kind \in {"num", "numstr"} THEN [nan |-> FALSE, v |-> days.v]
  ELSE [nan |-> FALSE, v |-> 0]

\* The conversion the - of getDate() - daysToKeep applies to daysToKeep: a
\* string that spells a number becomes that number; undefined, and any
\* other string, become NaN.
ToNumber(days) ==
  IF days.kind \in {"num", "numstr"} THEN [nan |-> FALSE, v |-> days.v]
  ELSE [nan |-> TRUE, v |-> 0]

NaN == [nan |-> TRUE, sec |-> 0, ms |-> 0]

Instant(s, m) == [nan |-> FALSE, sec |-> s, ms |-> m]

\* ECMAScript MakeDay: day number (days since 1970-01-01) of year y, month m
\* (1..12), day-of-month d; d outside the month rolls over linearly.
MakeDay(y, m, d) ==
  LET yy  == IF m <= 2 THEN y - 1 ELSE y
      era == yy \div 400
      yoe == yy - era * 400
      mp  == (m + 9) % 12
      doy == (153 * mp + 2) \div 5 + d - 1
      doe == yoe * 365 + yoe \div 4 - yoe \div 100 + doy
  IN  era * 146097 + doe - 719468

\* ECMAScript YearFromTime/MonthFromTime/DateFromTime on a day number.
CivilFromDay(z) ==
  LET zz  == z + 719468
      era == zz \div 146097
      doe == zz - era * 146097
      yoe == (doe - doe \div 1460 + doe \div 36524 - doe \div 146096) \div 365
      doy == doe - (365 * yoe + yoe \div 4 - yoe \div 100)
      mp  == (5 * doy + 2) \div 153
      d   == doy - (153 * mp + 2) \div 5 + 1
      m   == IF mp < 10 THEN mp + 3 ELSE mp - 9
      y   == yoe + era * 400 + (IF m <= 2 THEN 1 ELSE 0)
  IN  [y |-> y, mo |-> m, d |-> d]

\* a >= b on Date values as JavaScript compares getTime() numbers:
\* any comparison with NaN is false.
GE(a, b) ==
  /\ ~a.nan
  /\ ~b.nan
  /\ \/ a.sec > b.sec
     \/ a.sec = b.sec /\ a.ms >= b.ms

(***************************************************************************)
(* Text: stamps, fragments, lines, files                                   *)
(***************************************************************************)
NoStamp == [kind |-> "none", y |-> 0, mo |-> 0, d |-> 0, h |-> 0, mi |-> 0, s |-> 0]

\* "at banana UTC": an "at ... UTC" part that is not of the digit shape.
WordStamp == [kind |-> "word", y |-> 0, mo |-> 0, d |-> 0, h |-> 0, mi |-> 0, s |-> 0]

\* "at YYYY-MM-DD HH:MM:SS UTC" with the digit groups as numbers.
Digits(y, mo, d, h, mi, s) ==
  [kind |-> "digits", y |-> y, mo |-> mo, d |-> d, h |-> h, mi |-> mi, s |-> s]

NoNum == [kind |-> "none", v |-> 0]

Frag(txt, at) == [txt |-> txt, at |-> at, n |-> NoNum]

NL == [txt |-> "\n", at |-> NoStamp, n |-> NoNum]

\* String.prototype.split('\n'): the lines of a file, a line being the
\* sequence of fragments between two newlines.  Never empty: the empty
\* file splits into one empty line, a file ending in NL ends in one.
RECURSIVE SplitFrom(_, _, _)
SplitFrom(data, i, cur) ==
  IF i > Len(data) THEN <<cur>>
  ELSE IF data[i] = NL THEN <<cur>> \o SplitFrom(data, i + 1, <<>>)
  ELSE SplitFrom(data, i + 1, Append(cur, data[i]))

Split(data) == SplitFrom(data, 1, <<>>)

\* Variant: every line, the last one too, is ended by a newline.
RECURSIVE JoinTerminated(_)
JoinTerminated(ls) ==
  IF Len(ls) = 0 THEN <<>>
  ELSE ls[1] \o <<NL>> \o JoinTerminated(Tail(ls))

\* Array.prototype.join('\n'): no newline after the last line.
RECURSIVE Join(_)
Join(ls) ==
  IF Len(ls) = 0 THEN <<>>
  ELSE IF Len(ls) = 1 THEN ls[1]
  ELSE ls[1] \o <<NL>> \o Join(Tail(ls))

\* line.match(/at\s+(\d{4}-\d{2}-\d{2}\s+\d{2}:\d{2}:\d{2})\s+UTC/):
\* the first part of the line of the digit shape, NoStamp when there is none.
RECURSIVE MatchFrom(_, _)
MatchFrom(line, i) ==
  IF i > Len(line) THEN NoStamp
  ELSE IF line[i].at.kind = "digits" THEN line[i].at
  ELSE MatchFrom(line, i + 1)

Match(line) == MatchFrom(line, 1)

\* new Date(`${currentTimestamp} UTC`).getTime(): the instant of a stamp
\* read as UTC, NaN (Invalid Date) when a field is out of range.  No
\* exception is raised for any string.
ParseUTC(st) ==
  IF /\ st.mo \in 1..12
     /\ st.d \in 1..31
     /\ st.h \in 0..23
     /\ st.mi \in 0..59
     /\ st.s \in 0..59
  THEN Instant(MakeDay(st.y, st.mo, st.d) * SecPerDay
               + st.h * SecPerHour + st.mi * SecPerMin + st.s, 0)
  ELSE NaN

\* now.toISOString().replace('T', ' ').substring(0, 19): the UTC fields
\* down to the second; the milliseconds are cut off.
FormatDate(t) ==
  LET day == t.sec \div SecPerDay
      tod == t.sec % SecPerDay
      c   == CivilFromDay(day)
  IN  Digits(c.y, c.mo, c.d, tod \div SecPerHour,
             (tod % SecPerHour) \div SecPerMin, tod % SecPerMin)

\* cutoffDate.setDate(cutoffDate.getDate() - daysToKeep); getTime():
\* the same time of day, daysToKeep calendar days earlier (the host's zone
\* is modelled as a fixed offset, so local days are 24 hours long).  A
\* missing daysToKeep makes the day NaN and the date invalid.
CutoffOf(t, days) ==
  IF ToNumber(days).nan THEN NaN
  ELSE LET day == t.sec \div SecPerDay
           tod == t.sec % SecPerDay
           c   == CivilFromDay(day)
       IN  Instant(MakeDay(c.y, c.mo, c.d - ToNumber(days).v) * SecPerDay + tod,
                   t.ms)

\* The instant ms milliseconds after t (ms below one second).
AddMs(t, ms) ==
  Instant(t.sec + (t.ms + ms) \div 1000, (t.ms + ms) % 1000)

(***************************************************************************)
(* Inputs the model draws from                                             *)
(***************************************************************************)
HdrOld == <<Frag("Heartbeat update successful", Digits(2024, 1, 1, 0, 0, 0))>>

HdrEdge == <<Frag("Heartbeat update failed", Digits(2024, 5, 2, 0, 0, 0))>>

HdrNow == <<Frag("Heartbeat update successful", Digits(2024, 6, 1, 0, 0, 0))>>

HdrInvalid == <<Frag("Heartbeat update successful", Digits(2024, 13, 45, 99, 99, 99))>>

Banana == <<Frag("note", WordStamp)>>

Detail == <<Frag("  detail line", NoStamp)>>

LinePool == {HdrOld, HdrEdge, HdrNow, HdrInvalid, Banana, Detail}

\* Log files of up to MaxLines lines, with or without a final newline.
LogContents ==
  { Join(ls) \o tl : ls \in UNION { [1..n -> LinePool] : n \in 0..MaxLines },
                     tl \in {<<>>, <<NL>>} }

ClockChoices == { Instant(MakeDay(2024, 6, 1) * SecPerDay, ms) : ms \in {0, 500} }

\* Milliseconds that pass between two runs in immediate succession.
AdvanceChoices == {0, 500}

DaysChoices ==
  {Days(0), Days(1), Days(30), UndefinedDays, StringDays(30), TextDays}

(***************************************************************************)
(* The file system                                                         *)
(***************************************************************************)
LogFile == "log"

\* const tempFile = `${logFile}.tmp`
TempFile == "tmp"

Absent == [exists |-> FALSE, data |-> <<>>]

File(data) == [exists |-> TRUE, data |-> data]

\* Variant: the existence test always answers yes.
ExistsSyncAlways(f, p) == TRUE

\* fs.existsSync(p)
ExistsSync(f, p) == f[p].exists

\* fs.renameSync(from, to): one atomic replacement of the directory entry.
RenameSync(f, from, to) ==
  IF from = to THEN f
  ELSE [f EXCEPT ![to] = f[from], ![from] = Absent]

\* Variant: the content is written straight to the log path.
WriteTargetLog == LogFile

\* The path fs.writeFileSync is given in trimHeartbeatLog.
WriteTarget == TempFile

(***************************************************************************)
(* State                                                                   *)
(***************************************************************************)
VARIABLES
  clock,               \* the wall clock of the host
  fs,                  \* the files at the log path and at the temp path
  daysToKeep,          \* config.log_days_to_keep
  tpc,                 \* position of trimHeartbeatLog
  now,                 \* const now = new Date()
  cutoffTimestamp,     \* cutoffDate.getTime()
  lines,               \* the lines read from the log
  idx,                 \* position of the for-of loop in lines (1-based)
  currentTimestamp,    \* match[1] of the last header line
  currentTimestampMs,  \* its parsed instant
  keepCurrentBlock,
  output,
  console,             \* what the run printed
  runs,                \* invocations finished so far
  orig,                \* the log file as it was when the run was invoked
  kept,                \* what the loop decided for each line processed
  prevOutput           \* output of the previous run that rewrote the log

trimVars ==
  <<clock, fs, daysToKeep, tpc, now, cutoffTimestamp, lines, idx,
    currentTimestamp, currentTimestampMs, keepCurrentBlock, output,
    console, runs, orig, kept, prevOutput>>

\* State of raspberry_heartbeat.js: main and updateGithubFile.
VARIABLES
  ppc,        \* position of main / updateGithubFile
  attempt,    \* the loop counter i of main: the number of the attempt
  success,    \* let success in main
  sha,        \* let sha in updateGithubFile
  reqs,       \* the HTTP requests issued so far, with their outcomes
  results,    \* what each call of updateGithubFile returned
  waits,      \* the backoff timers main has awaited, in milliseconds
  plog        \* lines main and updateGithubFile printed

pubVars == <<ppc, attempt, success, sha, reqs, results, waits, plog>>

\* State of raspberry_heartbeat.js: getSystemInfo, getExternalIp and
\* checkErrorLog.
VARIABLES
  cpc,            \* position of getSystemInfo
  candIdx,        \* the candidate getExternalIp is at (1-based)
  tried,          \* the lookup endpoints contacted so far
  externalIp,     \* what getExternalIp returned
  dir,            \* ERROR_LOGS_DIR: [readable, entries in readdir order]
  errorLogFiles,  \* the entries that match, as the code has them
  latestLogFile,  \* errorLogFiles[0]
  fileSize,       \* stats.size
  fileKind,       \* what the selected file holds
  ioFailed,       \* a call of fs.promises rejected in checkErrorLog
  errorLog,       \* what checkErrorLog returned
  record          \* the StatusRecord getSystemInfo returned

colVars ==
  <<cpc, candIdx, tried, externalIp, dir, errorLogFiles, latestLogFile,
    fileSize, fileKind, ioFailed, errorLog, record>>

\* State of the job check-heartbeat of monitor-heartbeat.yml.
VARIABLES
  kpc,            \* the step the job is at
  heartbeat,      \* heartbeat.json of the checkout
  issue,          \* issue 1 and its comments
  source,         \* env.source
  env_status,     \* env.status
  alert_type,     \* env.alert_type
  has_error_logs, \* env.has_error_logs
  failed,         \* a step of the run has failed
  emails,         \* the emails the run has sent
  history,        \* the rows of check-history.md
  checks          \* check runs started

chkVars ==
  <<kpc, heartbeat, issue, source, env_status, alert_type, has_error_logs,
    failed, emails, history, checks>>

\* The heartbeat process of the crontab, as far as it writes to the log.
VARIABLES
  appended        \* the entries it has appended, and when

appVars == <<appended>>

vars == <<trimVars, pubVars, colVars, chkVars, appVars>>

\* The heartbeat process has appended nothing.
AppIdle == appended = <<>>

\* The publisher has not been started.
PubIdle ==
  /\ ppc = "off"
  /\ attempt = 1
  /\ success = FALSE
  /\ sha = "null"
  /\ reqs = <<>>
  /\ results = <<>>
  /\ waits = <<>>
  /\ plog = <<>>

\* null, and a string, as the value of log_content.
NullContent == [null |-> TRUE, text |-> <<>>]
Content(text) == [null |-> FALSE, text |-> text]

\* The object checkErrorLog returns when no file matches.
NoLogsFound ==
  [has_error |-> FALSE, message |-> "No error logs found",
   latest_log |-> "null", log_content |-> NullContent]

\* The collector has not been started.
ColIdle ==
  /\ cpc = "off"
  /\ candIdx = 1
  /\ tried = <<>>
  /\ externalIp = ""
  /\ dir = <<>>
  /\ errorLogFiles = <<>>
  /\ latestLogFile = "null"
  /\ fileSize = 0
  /\ fileKind = "ascii"
  /\ ioFailed = FALSE
  /\ errorLog = NoLogsFound
  /\ record = [external_ip |-> "", uptime |-> "", error_log |-> NoLogsFound]

\* heartbeat.json in the checkout: absent, or a file whose timestamp date
\* can or cannot convert, lying elapsed seconds before the check, with
\* .error_log.has_error true, false or null.
NoHeartbeat ==
  [exists |-> FALSE, valid |-> FALSE, elapsed |-> 0, has_error |-> "null"]

\* Issue 1 of the repository: absent, without comments, or with a latest
\* comment created elapsed seconds before the check.
NoIssue == [exists |-> FALSE, comments |-> FALSE, elapsed |-> 0]
\* No check run has been started.
ChkIdle ==
  /\ kpc = "off"
  /\ heartbeat = NoHeartbeat
  /\ issue = NoIssue
  /\ source = ""
  /\ env_status = ""
  /\ alert_type = ""
  /\ has_error_logs = ""
  /\ failed = FALSE
  /\ emails = <<>>
  /\ history = <<>>
  /\ checks = 0

\* Variant: the boundary excluded (> in place of >=).
KeepEntryStrict(t, cutoff) ==
  GE(t, cutoff) /\ ~(t.sec = cutoff.sec /\ t.ms = cutoff.ms)

\* Variant: the test written as !(t < cutoff), which NaN passes.
KeepEntryNotLess(t, cutoff) ==
  ~(/\ ~t.nan
    /\ ~cutoff.nan
    /\ \/ t.sec < cutoff.sec
       \/ t.sec = cutoff.sec /\ t.ms < cutoff.ms)

\* if (currentTimestampMs >= cutoffTimestamp)
KeepEntry(t, cutoff) == GE(t, cutoff)

\* Variant: the block flag starts set.
InitialKeepBlockTrue == TRUE

\* let keepCurrentBlock = false
InitialKeepBlock == FALSE

\* `Heartbeat log maintenance successful at ${formattedDate} UTC`
MaintenanceLine(t) ==
  <<Frag("Heartbeat log maintenance successful", FormatDate(t))>>

\* `Removed entries older than ${daysToKeep} days`
RemovedLine(days) ==
  <<[txt |-> "Removed entries older than N days", at |-> NoStamp, n |-> days]>>

\* Variant: the line goes to the front of output.
PushFront(out, line) == <<line>> \o out

\* output.push(line)
Push(out, line) == Append(out, line)

\* Variant: no maintenance entry when nothing was retained.
PushMaintenanceEntryIfAny(out, t, days) ==
  IF out = <<>> THEN out
  ELSE Append(Append(out, MaintenanceLine(t)), RemovedLine(days))

\* output.push(maintenance line); output.push(removed line)
PushMaintenanceEntry(out, t, days) ==
  Append(Append(out, MaintenanceLine(t)), RemovedLine(days))

TrimInit ==
  /\ clock \in ClockChoices
  /\ fs \in { [log |-> f, tmp |-> Absent] :
                f \in {Absent} \cup { File(c) : c \in LogContents } }
  /\ daysToKeep \in DaysChoices
  /\ tpc = "off"
  /\ now = NaN
  /\ cutoffTimestamp = NaN
  /\ lines = <<>>
  /\ idx = 1
  /\ currentTimestamp = NoStamp
  /\ currentTimestampMs = Instant(0, 0)
  /\ keepCurrentBlock = FALSE
  /\ output = <<>>
  /\ console = {}
  /\ runs = 0
  /\ orig = Absent
  /\ kept = <<>>
  /\ prevOutput = <<>>
  /\ PubIdle
  /\ ColIdle
  /\ ChkIdle
  /\ AppIdle

\* cron starts the script; loadConfig() succeeds.
StartTrim ==
  /\ tpc \in {"off", "returned"}
  /\ runs < MaxRuns
  /\ \E adv \in AdvanceChoices : clock' = AddMs(clock, adv)
  /\ tpc' = "check"
  /\ console' = {}
  /\ orig' = fs[LogFile]
  /\ prevOutput' = IF tpc = "returned" /\ orig.exists THEN output ELSE <<>>
  /\ UNCHANGED <<fs, daysToKeep, now, cutoffTimestamp, lines, idx,
                 currentTimestamp, currentTimestampMs, keepCurrentBlock,
                 output, runs, kept>>
  /\ UNCHANGED <<pubVars, colVars, chkVars, appVars>>

\* if (!fs.existsSync(logFile)) { console.log(Warning...); return; }
CheckLogFile ==
  /\ tpc = "check"
  /\ IF ExistsSync(fs, LogFile)
     THEN /\ tpc' = "read"
          /\ UNCHANGED <<console, runs>>
     ELSE /\ tpc' = "returned"
          /\ console' = console \cup {"Warning: Log file does not exist"}
          /\ runs' = runs + 1
  /\ UNCHANGED <<clock, fs, daysToKeep, now, cutoffTimestamp, lines, idx,
                 currentTimestamp, currentTimestampMs, keepCurrentBlock,
                 output, orig, kept, prevOutput>>
  /\ UNCHANGED <<pubVars, colVars, chkVars, appVars>>

\* now, cutoffTimestamp, readFileSync(logFile).split('\n') and the loop
\* variables.  readFileSync of a missing file throws ENOENT, which nothing
\* catches.
ReadLog ==
  /\ tpc = "read"
  /\ now' = clock
  /\ cutoffTimestamp' = CutoffOf(clock, daysToKeep)
  /\ IF fs[LogFile].exists
     THEN /\ lines' = Split(fs[LogFile].data)
          /\ tpc' = "loop"
     ELSE /\ lines' = <<>>
          /\ tpc' = "threw"
  /\ idx' = 1
  /\ currentTimestamp' = NoStamp
  /\ currentTimestampMs' = Instant(0, 0)
  /\ keepCurrentBlock' = InitialKeepBlock
  /\ output' = <<>>
  /\ kept' = <<>>
  /\ UNCHANGED <<clock, fs, daysToKeep, console, runs, orig, prevOutput>>
  /\ UNCHANGED <<pubVars, colVars, chkVars, appVars>>

\* One iteration of for (const line of lines).
ProcessLine ==
  /\ tpc = "loop"
  /\ idx <= Len(lines)
  /\ LET line  == lines[idx]
         match == Match(line)
     IN  IF match.kind = "digits"
         THEN /\ currentTimestamp' = match
              /\ currentTimestampMs' = ParseUTC(match)
              /\ IF KeepEntry(ParseUTC(match), cutoffTimestamp)
                 THEN /\ keepCurrentBlock' = TRUE
                      /\ output' = Push(output, line)
                      /\ kept' = Append(kept, TRUE)
                 ELSE /\ keepCurrentBlock' = FALSE
                      /\ output' = output
                      /\ kept' = Append(kept, FALSE)
         ELSE /\ UNCHANGED <<currentTimestamp, currentTimestampMs, keepCurrentBlock>>
              /\ IF keepCurrentBlock
                 THEN /\ output' = Push(output, line)
                      /\ kept' = Append(kept, TRUE)
                 ELSE /\ output' = output
                      /\ kept' = Append(kept, FALSE)
  /\ idx' = idx + 1
  /\ UNCHANGED <<clock, fs, daysToKeep, tpc, now, cutoffTimestamp, lines,
                 console, runs, orig, prevOutput>>
  /\ UNCHANGED <<pubVars, colVars, chkVars, appVars>>

\* The loop is over: the maintenance entry is added to output.
AddMaintenanceEntry ==
  /\ tpc = "loop"
  /\ idx > Len(lines)
  /\ output' = PushMaintenanceEntry(output, now, daysToKeep)
  /\ tpc' = "open"
  /\ UNCHANGED <<clock, fs, daysToKeep, now, cutoffTimestamp, lines, idx,
                 currentTimestamp, currentTimestampMs, keepCurrentBlock,
                 console, runs, orig, kept, prevOutput>>
  /\ UNCHANGED <<pubVars, colVars, chkVars, appVars>>

\* fs.writeFileSync(tempFile, ...), first half: the file is created or
\* truncated.
OpenTempFile ==
  /\ tpc = "open"
  /\ fs' = [fs EXCEPT ![WriteTarget] = File(<<>>)]
  /\ tpc' = "write"
  /\ UNCHANGED <<clock, daysToKeep, now, cutoffTimestamp, lines, idx,
                 currentTimestamp, currentTimestampMs, keepCurrentBlock,
                 output, console, runs, orig, kept, prevOutput>>
  /\ UNCHANGED <<pubVars, colVars, chkVars, appVars>>

\* fs.writeFileSync(tempFile, output.join('\n'), 'utf8'), second half: the
\* bytes are written.
WriteTempFile ==
  /\ tpc = "write"
  /\ fs' = [fs EXCEPT ![WriteTarget] = File(Join(output))]
  /\ tpc' = "rename"
  /\ UNCHANGED <<clock, daysToKeep, now, cutoffTimestamp, lines, idx,
                 currentTimestamp, currentTimestampMs, keepCurrentBlock,
                 output, console, runs, orig, kept, prevOutput>>
  /\ UNCHANGED <<pubVars, colVars, chkVars, appVars>>

\* fs.renameSync(tempFile, logFile); the function returns.
RenameTempFile ==
  /\ tpc = "rename"
  /\ fs' = RenameSync(fs, WriteTarget, LogFile)
  /\ tpc' = "returned"
  /\ runs' = runs + 1
  /\ UNCHANGED <<clock, daysToKeep, now, cutoffTimestamp, lines, idx,
                 currentTimestamp, currentTimestampMs, keepCurrentBlock,
                 output, console, orig, kept, prevOutput>>
  /\ UNCHANGED <<pubVars, colVars, chkVars, appVars>>

TrimNext ==
  \/ StartTrim
  \/ CheckLogFile
  \/ ReadLog
  \/ ProcessLine
  \/ AddMaintenanceEntry
  \/ OpenTempFile
  \/ WriteTempFile
  \/ RenameTempFile

SpecTrim == TrimInit /\ [][TrimNext]_vars

(***************************************************************************)
(* The status publisher: main and updateGithubFile                         *)
(***************************************************************************)
\* const attempts = 3
Attempts == 3

\* Version tokens of the remote store: blob hashes, never empty.
Tokens == {"s1", "s2"}

\* response.data.sha: a token, or undefined when the body has no such field.
ShaFields == Tokens \cup {"undefined"}

GetStatuses == {200, 404, 500}

PutStatuses == {200, 201, 204, 409}

\* if (sha): null and undefined are falsy, a token is truthy.
Truthy(s) == s \in Tokens

\* Variant: the sha of an earlier attempt is kept.
KeepSha(old) == old

\* let sha = null, at the start of every call of updateGithubFile
FreshSha(old) == "null"

\* Variant: the sha is taken from any response, whatever its status.
ShaFromGetAnyStatus(status, rsha, old) == rsha

\* if (response.statusCode === 200) { sha = response.data.sha; }
ShaFromGet(status, rsha, old) == IF status = 200 THEN rsha ELSE old

\* updateData: the sha field is set only if (sha).
PutBody(s) ==
  IF Truthy(s)
  THEN [message |-> "Update heartbeat status", hasSha |-> TRUE, sha |-> s]
  ELSE [message |-> "Create heartbeat status file", hasSha |-> FALSE, sha |-> "undefined"]

\* Variant: only 200 counts as success.
IsSuccessStatusOnly200(status) == status = 200

\* updateResponse.statusCode === 200 || updateResponse.statusCode === 201
IsSuccessStatus(status) == status = 200 \/ status = 201

\* Variant: no try/catch around the body of updateGithubFile.
UpdateRethrows == FALSE

\* try { ... } catch (error) { console.error(...); return false; } around
\* the whole body of updateGithubFile.
UpdateCatches == TRUE

\* Variant: the loop stops one attempt early (< in place of <=).
LoopContinuesStrict(a) == a < Attempts

\* for (let i = 1; i <= attempts; i++)
LoopContinues(a) == a <= Attempts

\* const backoffMs = i * 2000
BackoffMs(a) == a * 2000

GetRecord(a, outcome, status, rsha) ==
  [attempt |-> a, method |-> "GET", outcome |-> outcome, statusCode |-> status,
   respSha |-> rsha, hasSha |-> FALSE, sentSha |-> "undefined"]

PutRecord(a, body) ==
  [attempt |-> a, method |-> "PUT", outcome |-> "sent", statusCode |-> 0,
   respSha |-> "undefined", hasSha |-> body.hasSha, sentSha |-> body.sha]

\* The trim script is not running and has no file.
TrimIdle ==
  /\ clock = Instant(0, 0)
  /\ fs = [log |-> Absent, tmp |-> Absent]
  /\ daysToKeep = UndefinedDays
  /\ tpc = "off"
  /\ now = NaN
  /\ cutoffTimestamp = NaN
  /\ lines = <<>>
  /\ idx = 1
  /\ currentTimestamp = NoStamp
  /\ currentTimestampMs = Instant(0, 0)
  /\ keepCurrentBlock = FALSE
  /\ output = <<>>
  /\ console = {}
  /\ runs = 0
  /\ orig = Absent
  /\ kept = <<>>
  /\ prevOutput = <<>>

PubInit == TrimIdle /\ PubIdle /\ ColIdle /\ ChkIdle /\ AppIdle

\* main: getSystemInfo() has resolved; success = false and the loop starts.
StartMain ==
  /\ ppc = "off"
  /\ ppc' = "loop"
  /\ success' = FALSE
  /\ attempt' = 1
  /\ UNCHANGED <<sha, reqs, results, waits, plog>>
  /\ UNCHANGED <<trimVars, colVars, chkVars, appVars>>

\* success = await updateGithubFile(systemInfo): the call starts, sha is
\* null and the GET is sent.
CallUpdate ==
  /\ ppc = "loop"
  /\ LoopContinues(attempt)
  /\ sha' = FreshSha(sha)
  /\ ppc' = "get"
  /\ UNCHANGED <<attempt, success, reqs, results, waits, plog>>
  /\ UNCHANGED <<trimVars, colVars, chkVars, appVars>>

\* The GET resolves with a response; the sha is taken from it when the
\* status is 200, the body is prepared and the PUT is sent.
GetResponds ==
  /\ ppc = "get"
  /\ \E status \in GetStatuses, rsha \in ShaFields :
       LET s == ShaFromGet(status, rsha, sha)
       IN  /\ sha' = s
           /\ reqs' = reqs \o <<GetRecord(attempt, "response", status, rsha),
                                PutRecord(attempt, PutBody(s))>>
  /\ ppc' = "put"
  /\ UNCHANGED <<attempt, success, results, waits, plog>>
  /\ UNCHANGED <<trimVars, colVars, chkVars, appVars>>

\* The GET rejects (network error, timeout); the inner catch logs it and the
\* PUT is sent without a sha.
GetFails ==
  /\ ppc = "get"
  /\ reqs' = reqs \o <<GetRecord(attempt, "error", 0, "undefined"),
                       PutRecord(attempt, PutBody(sha))>>
  /\ plog' = Append(plog, "File does not exist yet, will create it")
  /\ ppc' = "put"
  /\ UNCHANGED <<attempt, success, sha, results, waits>>
  /\ UNCHANGED <<trimVars, colVars, chkVars, appVars>>

\* The PUT resolves; updateGithubFile returns whether the status is 200 or 201.
PutResponds ==
  /\ ppc = "put"
  /\ \E status \in PutStatuses :
       /\ success' = IsSuccessStatus(status)
       /\ results' = Append(results, [ret |-> IsSuccessStatus(status),
                                      outcome |-> "response", statusCode |-> status])
  /\ ppc' = "ret"
  /\ UNCHANGED <<attempt, sha, reqs, waits, plog>>
  /\ UNCHANGED <<trimVars, colVars, chkVars, appVars>>

\* The PUT rejects; the outer catch logs it and updateGithubFile returns false.
\* Without that catch the rejection would reach the catch of main, which
\* logs it and ends main.
PutFails ==
  /\ ppc = "put"
  /\ IF UpdateCatches
     THEN /\ success' = FALSE
          /\ results' = Append(results, [ret |-> FALSE, outcome |-> "error", statusCode |-> 0])
          /\ plog' = Append(plog, "Failed to update GitHub file")
          /\ ppc' = "ret"
     ELSE /\ plog' = Append(plog, "Error in heartbeat process")
          /\ ppc' = "done"
          /\ UNCHANGED <<success, results>>
  /\ UNCHANGED <<attempt, sha, reqs, waits>>
  /\ UNCHANGED <<trimVars, colVars, chkVars, appVars>>

\* main resumes after the await: break and report on success, otherwise
\* the warning and the backoff timer.
UpdateReturned ==
  /\ ppc = "ret"
  /\ IF success
     THEN /\ plog' = Append(plog, "Heartbeat update successful")
          /\ ppc' = "done"
          /\ UNCHANGED waits
     ELSE /\ plog' = Append(plog, "GitHub update failed. Retrying")
          /\ waits' = Append(waits, BackoffMs(attempt))
          /\ ppc' = "backoff"
  /\ UNCHANGED <<attempt, success, sha, reqs, results>>
  /\ UNCHANGED <<trimVars, colVars, chkVars, appVars>>

\* The timer fires: i++, and the loop test; when the loop is over main
\* reports the failure.
BackoffElapsed ==
  /\ ppc = "backoff"
  /\ attempt' = attempt + 1
  /\ IF LoopContinues(attempt + 1)
     THEN /\ ppc' = "loop"
          /\ UNCHANGED plog
     ELSE /\ plog' = plog \o <<"Heartbeat update failed", "Failed to update GitHub file. Check your token and network connection.">>
          /\ ppc' = "done"
  /\ UNCHANGED <<success, sha, reqs, results, waits>>
  /\ UNCHANGED <<trimVars, colVars, chkVars, appVars>>

PubNext ==
  \/ StartMain
  \/ CallUpdate
  \/ GetResponds
  \/ GetFails
  \/ PutResponds
  \/ PutFails
  \/ UpdateReturned
  \/ BackoffElapsed

SpecPub == PubInit /\ [][PubNext]_vars

\* ---- raspberry_heartbeat.js: getSystemInfo, getExternalIp, checkErrorLog ----

\* The most directory entries a listing has.
MaxFiles == 3

\* A file name, with the three groups ERROR_LOG_PATTERN captures in it as
\* sequences of digits (empty when the pattern does not match the name).
Entry(name, y, m, d) ==
  [name |-> name, matches |-> TRUE, y |-> y, m |-> m, d |-> d]

NonMatching(name) ==
  [name |-> name, matches |-> FALSE, y |-> <<>>, m |-> <<>>, d |-> <<>>]

\* Names under a pattern with groups (\d{4}), (\d{2}), (\d{2}), as every
\* documented log_file_pattern has them.
EntryPool ==
  { Entry("error_2023-12-31.log", <<2, 0, 2, 3>>, <<1, 2>>, <<3, 1>>),
    Entry("error_2024-05-31.log", <<2, 0, 2, 4>>, <<0, 5>>, <<3, 1>>),
    Entry("error_2024-06-01.log", <<2, 0, 2, 4>>, <<0, 6>>, <<0, 1>>),
    Entry("app_2024-06-01.log", <<2, 0, 2, 4>>, <<0, 6>>, <<0, 1>>),
    NonMatching("notes.txt") }

\* What readdir can resolve to: distinct names in any order.
Listings ==
  { s \in UNION { [1..n -> EntryPool] : n \in 0..MaxFiles } :
      \A j, k \in 1..Len(s) : j # k => s[j].name # s[k].name }

\* What stat can report as the size of the selected file.
SizeChoices == {0, 3, 500, 501}

\* Files are all the byte "a" ("ascii"), or end in the two bytes of "e
\* acute", a lead byte and a continuation byte ("accent").
KindChoices == {"ascii", "accent"}

FileByte(kind, size, j) ==
  IF kind = "accent" /\ size >= 2 /\ j = size - 1 THEN "lead"
  ELSE IF kind = "accent" /\ size >= 2 /\ j = size THEN "cont"
  ELSE "a"

\* ERROR_LOG_PATTERN.test(file)
TestPattern(e) == e.matches

\* files.filter(file => ERROR_LOG_PATTERN.test(file))
RECURSIVE Filter(_)
Filter(files) ==
  IF files = <<>> THEN <<>>
  ELSE (IF TestPattern(Head(files)) THEN <<Head(files)>> ELSE <<>>)
       \o Filter(Tail(files))

\* `${date[1]}-${date[2]}-${date[3]}`; the hyphen is the character -1, which
\* collates before every digit.
Hyphen == <<0 - 1>>
FullDate(e) == e.y \o Hyphen \o e.m \o Hyphen \o e.d

\* a.localeCompare(b) on strings of digits and hyphens: -1, 0 or 1 by the
\* first character that differs, a proper prefix first.
RECURSIVE LocaleCompare(_, _)
LocaleCompare(a, b) ==
  IF a = <<>> /\ b = <<>> THEN 0
  ELSE IF a = <<>> THEN 0 - 1
  ELSE IF b = <<>> THEN 1
  ELSE IF Head(a) < Head(b) THEN 0 - 1
  ELSE IF Head(a) > Head(b) THEN 1
  ELSE LocaleCompare(Tail(a), Tail(b))

\* Variant: the comparator with its operands the other way round.
CompareOldestFirst(a, b) == LocaleCompare(FullDate(a), FullDate(b))

\* (a, b) => fullDateB.localeCompare(fullDateA)
CompareNewestFirst(a, b) == LocaleCompare(FullDate(b), FullDate(a))

\* One step of the stable sort: x goes behind every element that does not
\* sort after it.
RECURSIVE InsertSorted(_, _)
InsertSorted(sorted, x) ==
  IF sorted = <<>> THEN <<x>>
  ELSE IF CompareNewestFirst(Head(sorted), x) <= 0
       THEN <<Head(sorted)>> \o InsertSorted(Tail(sorted), x)
       ELSE <<x>> \o sorted

\* errorLogFiles.sort(comparator): Array.prototype.sort is stable.
RECURSIVE SortFrom(_, _)
SortFrom(sorted, rest) ==
  IF rest = <<>> THEN sorted
  ELSE SortFrom(InsertSorted(sorted, Head(rest)), Tail(rest))

Sort(files) == SortFrom(<<>>, files)

\* Variant: the buffer always has 500 bytes.
BufferLengthFixed(size) == 500

\* Math.min(500, fileSize)
BufferLength(size) == IF size < 500 THEN size ELSE 500

\* Buffer.alloc(n) is n zero bytes; fileHandle.read(buffer, 0, n, 0) copies
\* the bytes of the file from position 0, as many as the file has.
ReadBuffer(kind, size) ==
  [j \in 1..BufferLength(size) |->
     IF j <= size THEN FileByte(kind, size, j) ELSE "zero"]

\* buffer.toString('utf8'): a lead byte and the continuation byte behind it
\* are one character; a lead byte with no continuation byte behind it, and
\* a continuation byte on its own, decode to the replacement character.
BufferToString(buf) ==
  LET Continues(j) == j > 1 /\ buf[j] = "cont" /\ buf[j - 1] = "lead"
      Starts(j) == ~Continues(j)
      starts == SelectSeq([j \in 1..Len(buf) |-> j], Starts)
      CharAt(j) ==
        IF buf[j] = "lead" /\ j < Len(buf) /\ buf[j + 1] = "cont"
          THEN "e-acute"
        ELSE IF buf[j] \in {"lead", "cont"} THEN "replacement"
        ELSE IF buf[j] = "zero" THEN "nul"
        ELSE "a"
  IN  [k \in 1..Len(starts) |-> CharAt(starts[k])]

\* '...'
Ellipsis == <<".", ".", ".">>

\* if (fileSize > 500) logContent += '...'
LogContent(kind, size) ==
  BufferToString(ReadBuffer(kind, size)) \o (IF size > 500 THEN Ellipsis ELSE <<>>)

\* The object checkErrorLog returns after stat and read.
LogStatus(name, kind, size) ==
  [has_error |-> size > 0,
   message |-> IF size > 0 THEN "Error log contains N bytes"
               ELSE "Error log is empty",
   latest_log |-> name,
   log_content |-> IF size > 0 THEN Content(LogContent(kind, size))
                   ELSE NullContent]

\* The object the catch block of checkErrorLog returns.
CheckFailed ==
  [has_error |-> FALSE, message |-> "Error checking logs",
   latest_log |-> "null", log_content |-> NullContent]

\* candidates, by hostname.
Candidates == <<"api.ipify.org", "ifconfig.me">>

\* 'Unable to determine'
Sentinel == "Unable to determine"

\* Response bodies: text, with or without white space around it.
Bodies ==
  { [text |-> t, ws |-> w] :
      t \in {"", "203.0.113.7", "<html>busy</html>"}, w \in BOOLEAN }

\* rawData.trim()
TrimBody(b) == b.text

\* Variant: any body is returned.
IpAcceptedAny(ip) == TRUE

\* if (ip) return ip
IpAccepted(ip) == ip # ""


ColInit ==
  /\ TrimIdle
  /\ PubIdle
  /\ ChkIdle
  /\ AppIdle
  /\ cpc = "off"
  /\ candIdx = 1
  /\ tried = <<>>
  /\ externalIp = ""
  /\ dir \in Listings
  /\ errorLogFiles = <<>>
  /\ latestLogFile = "null"
  /\ fileSize = 0
  /\ fileKind = "ascii"
  /\ ioFailed = FALSE
  /\ errorLog = NoLogsFound
  /\ record = [external_ip |-> "", uptime |-> "", error_log |-> NoLogsFound]

\* getSystemInfo: the memory figures are read and getExternalIp() is called.
StartCollect ==
  /\ cpc = "off"
  /\ cpc' = "ip"
  /\ candIdx' = 1
  /\ UNCHANGED <<tried, externalIp, dir, errorLogFiles, latestLogFile,
                 fileSize, fileKind, ioFailed, errorLog, record>>
  /\ UNCHANGED <<trimVars, pubVars, chkVars, appVars>>

\* The for loop moves to the next candidate, or ends with the sentinel.
NextCandidate ==
  IF candIdx < Len(Candidates)
  THEN /\ candIdx' = candIdx + 1
       /\ UNCHANGED <<cpc, externalIp>>
  ELSE /\ externalIp' = Sentinel
       /\ cpc' = "probes"
       /\ UNCHANGED candIdx

\* The candidate answers and 'end' resolves the promise with the trimmed
\* body, whatever the status code.
IpResponds ==
  /\ cpc = "ip"
  /\ \E body \in Bodies :
       /\ tried' = Append(tried, [host |-> Candidates[candIdx],
                                  outcome |-> "body", text |-> TrimBody(body)])
       /\ IF IpAccepted(TrimBody(body))
          THEN /\ externalIp' = TrimBody(body)
               /\ cpc' = "probes"
               /\ UNCHANGED candIdx
          ELSE NextCandidate
  /\ UNCHANGED <<dir, errorLogFiles, latestLogFile, fileSize, fileKind,
                 ioFailed, errorLog, record>>
  /\ UNCHANGED <<trimVars, pubVars, chkVars, appVars>>

\* The request errors or its 5000 ms timer destroys it: the promise
\* rejects, the catch block warns and the loop goes on.
IpFails ==
  /\ cpc = "ip"
  /\ \E why \in {"error", "timeout"} :
       tried' = Append(tried, [host |-> Candidates[candIdx],
                               outcome |-> why, text |-> ""])
  /\ NextCandidate
  /\ UNCHANGED <<dir, errorLogFiles, latestLogFile, fileSize, fileKind,
                 ioFailed, errorLog, record>>
  /\ UNCHANGED <<trimVars, pubVars, chkVars, appVars>>

\* getUptime, getDiskUsage and getCpuTemperature: each catches its own
\* failure and returns a default; then checkErrorLog() is called.
LocalProbes ==
  /\ cpc = "probes"
  /\ \E up \in {"up 3 days", "Unable to determine"} :
       record' = [record EXCEPT !.uptime = up]
  /\ cpc' = "readdir"
  /\ UNCHANGED <<candIdx, tried, externalIp, dir, errorLogFiles,
                 latestLogFile, fileSize, fileKind, ioFailed, errorLog>>
  /\ UNCHANGED <<trimVars, pubVars, chkVars, appVars>>

\* readdir resolves: the names are filtered; with no match the function
\* returns, otherwise the matches are sorted and the first one is stat'ed.
ReadDirResolves ==
  /\ cpc = "readdir"
  /\ IF Filter(dir) = <<>>
     THEN /\ errorLogFiles' = <<>>
          /\ errorLog' = NoLogsFound
          /\ cpc' = "return"
          /\ UNCHANGED latestLogFile
     ELSE /\ errorLogFiles' = Sort(Filter(dir))
          /\ latestLogFile' = Sort(Filter(dir))[1].name
          /\ cpc' = "stat"
          /\ UNCHANGED errorLog
  /\ UNCHANGED <<candIdx, tried, externalIp, dir, fileSize, fileKind,
                 ioFailed, record>>
  /\ UNCHANGED <<trimVars, pubVars, chkVars, appVars>>

\* catch (error): the failure object is returned.
CatchCheckError ==
  /\ errorLog' = CheckFailed
  /\ ioFailed' = TRUE
  /\ cpc' = "return"

\* readdir rejects (the directory is missing or unreadable).
ReadDirRejects ==
  /\ cpc = "readdir"
  /\ CatchCheckError
  /\ UNCHANGED <<candIdx, tried, externalIp, dir, errorLogFiles,
                 latestLogFile, fileSize, fileKind, record>>
  /\ UNCHANGED <<trimVars, pubVars, chkVars, appVars>>

\* stat resolves with the size of the selected file; an empty file needs no
\* read and the function returns.
StatResolves ==
  /\ cpc = "stat"
  /\ \E size \in SizeChoices, kind \in KindChoices :
       /\ fileSize' = size
       /\ fileKind' = kind
       /\ IF size > 0
          THEN /\ cpc' = "read"
               /\ UNCHANGED errorLog
          ELSE /\ errorLog' = LogStatus(latestLogFile, kind, size)
               /\ cpc' = "return"
  /\ UNCHANGED <<candIdx, tried, externalIp, dir, errorLogFiles,
                 latestLogFile, ioFailed, record>>
  /\ UNCHANGED <<trimVars, pubVars, chkVars, appVars>>

\* stat rejects (the file is gone or may not be accessed).
StatRejects ==
  /\ cpc = "stat"
  /\ CatchCheckError
  /\ UNCHANGED <<candIdx, tried, externalIp, dir, errorLogFiles,
                 latestLogFile, fileSize, fileKind, record>>
  /\ UNCHANGED <<trimVars, pubVars, chkVars, appVars>>

\* open, read and close resolve; the buffer is decoded and the function
\* returns.
ReadResolves ==
  /\ cpc = "read"
  /\ errorLog' = LogStatus(latestLogFile, fileKind, fileSize)
  /\ cpc' = "return"
  /\ UNCHANGED <<candIdx, tried, externalIp, dir, errorLogFiles,
                 latestLogFile, fileSize, fileKind, ioFailed, record>>
  /\ UNCHANGED <<trimVars, pubVars, chkVars, appVars>>

\* open, read or close rejects.
ReadRejects ==
  /\ cpc = "read"
  /\ CatchCheckError
  /\ UNCHANGED <<candIdx, tried, externalIp, dir, errorLogFiles,
                 latestLogFile, fileSize, fileKind, record>>
  /\ UNCHANGED <<trimVars, pubVars, chkVars, appVars>>

\* getSystemInfo returns the record.
ReturnSystemInfo ==
  /\ cpc = "return"
  /\ record' = [record EXCEPT !.external_ip = externalIp,
                              !.error_log = errorLog]
  /\ cpc' = "done"
  /\ UNCHANGED <<candIdx, tried, externalIp, dir, errorLogFiles,
                 latestLogFile, fileSize, fileKind, ioFailed, errorLog>>
  /\ UNCHANGED <<trimVars, pubVars, chkVars, appVars>>

ColNext ==
  \/ StartCollect
  \/ IpResponds
  \/ IpFails
  \/ LocalProbes
  \/ ReadDirResolves
  \/ ReadDirRejects
  \/ StatResolves
  \/ StatRejects
  \/ ReadResolves
  \/ ReadRejects
  \/ ReturnSystemInfo

SpecCollect == ColInit /\ [][ColNext]_vars

\* ---- .github/workflows/monitor-heartbeat.yml: job check-heartbeat ----

Heartbeat(valid, elapsed, flag) ==
  [exists |-> TRUE, valid |-> valid, elapsed |-> elapsed, has_error |-> flag]

\* Seconds between the last heartbeat and the check.
FileElapsedChoices == {0 - 60, 0, 10800, 10801, 12600, 14399, 14400, 90000}

HeartbeatChoices ==
  {NoHeartbeat}
  \cup { Heartbeat(TRUE, e, f) :
           e \in FileElapsedChoices, f \in {"true", "false", "null"} }
  \cup { Heartbeat(FALSE, 0, f) : f \in {"true", "false"} }

Issue(comments, elapsed) ==
  [exists |-> TRUE, comments |-> comments, elapsed |-> elapsed]

IssueElapsedChoices == {0, 46800, 50399, 50400}

IssueChoices ==
  {NoIssue, Issue(FALSE, 0)}
  \cup { Issue(TRUE, e) : e \in IssueElapsedChoices }

\* The most check runs of a behaviour.
MaxChecks == 2

\* $(( a / b )): bash division truncates toward zero.
BashDiv(a, b) == IF a >= 0 THEN a \div b ELSE 0 - ((0 - a) \div b)

\* DIFF_HOURS=$(( ($CURRENT_EPOCH - $LAST_HEARTBEAT_EPOCH) / 3600 ))
DiffHours(elapsed) == BashDiv(elapsed, SecPerHour)

\* if [ $DIFF_HOURS -gt 3 ]
FileIsStale(elapsed) == DiffHours(elapsed) > 3

\* if [ $DIFF_HOURS -gt 13 ]
IssueIsStale(elapsed) == DiffHours(elapsed) > 13

\* jq -e '.error_log.has_error' ... && [ "$(jq -r ...)" = "true" ]
HasErrorFlag(hb) == hb.has_error = "true"

\* Variant: the offline email only on alert_type.
OfflineEmailIfAlertOnly(alert, src) == alert = "offline"

\* if: env.alert_type == 'offline' || (env.source == 'unknown')
OfflineEmailIf(alert, src) == alert = "offline" \/ src = "unknown"

\* if: env.alert_type == 'error_log' && env.has_error_logs == 'true'
ErrorEmailIf(alert, flag) == alert = "error_log" /\ flag = "true"

\* Variant: the history step without a status function, which needs every
\* earlier step to have succeeded.
HistoryIfSuccess(f) == ~f

\* if: always()
HistoryIf(f) == TRUE

\* The row the history step appends, from the environment of the job.
HistoryRow(st, src, flag) ==
  IF st # ""
  THEN [status |-> st,
        message |-> "env.message",
        error_logs |-> IF flag = "true" THEN "error_log_file"
                       ELSE IF flag = "false" THEN "No errors" ELSE "N/A"]
  ELSE IF src = "unknown"
  THEN [status |-> "error", message |-> "env.error", error_logs |-> "N/A"]
  ELSE [status |-> "Unknown",
        message |-> "Check did not complete successfully",
        error_logs |-> "N/A"]

ChkInit == TrimIdle /\ PubIdle /\ ColIdle /\ ChkIdle /\ AppIdle

\* The schedule starts a run: a fresh job with an empty environment; the
\* checkout and "Set current time" succeed. The repository holds whatever
\* heartbeat the Pi published last.
StartCheck ==
  /\ kpc \in {"off", "done"}
  /\ checks < MaxChecks
  /\ checks' = checks + 1
  /\ heartbeat' \in HeartbeatChoices
  /\ issue' \in IssueChoices
  /\ kpc' = "source"
  /\ source' = ""
  /\ env_status' = ""
  /\ alert_type' = ""
  /\ has_error_logs' = ""
  /\ failed' = FALSE
  /\ emails' = <<>>
  /\ UNCHANGED history
  /\ UNCHANGED <<trimVars, pubVars, colVars, appVars>>

\* Step "Check heartbeat source".
CheckSource ==
  /\ kpc = "source"
  /\ source' = IF heartbeat.exists THEN "file"
               ELSE IF issue.exists THEN "issue" ELSE "unknown"
  /\ kpc' = "classify"
  /\ UNCHANGED <<heartbeat, issue, env_status, alert_type, has_error_logs,
                 failed, emails, history, checks>>
  /\ UNCHANGED <<trimVars, pubVars, colVars, appVars>>

\* Step "Check heartbeat file" (if: env.source == 'file'); the script runs
\* under bash -e, so a date that cannot convert fails the step before
\* anything is written to the environment.
CheckFile ==
  /\ kpc = "classify"
  /\ source = "file"
  /\ IF ~heartbeat.valid
     THEN /\ failed' = TRUE
          /\ UNCHANGED <<env_status, alert_type, has_error_logs>>
     ELSE IF FileIsStale(heartbeat.elapsed)
     THEN /\ env_status' = "offline"
          /\ alert_type' = "offline"
          /\ UNCHANGED <<has_error_logs, failed>>
     ELSE /\ env_status' = "online"
          /\ IF HasErrorFlag(heartbeat)
             THEN has_error_logs' = "true" /\ alert_type' = "error_log"
             ELSE has_error_logs' = "false" /\ UNCHANGED alert_type
          /\ UNCHANGED failed
  /\ kpc' = "offline_email"
  /\ UNCHANGED <<heartbeat, issue, source, emails, history, checks>>
  /\ UNCHANGED <<trimVars, pubVars, colVars, appVars>>

\* Step "Check heartbeat issue comments" (if: env.source == 'issue'); when
\* the request for the comments is not answered the step fails under
\* bash -e before anything is written to the environment.
CheckIssue ==
  /\ kpc = "classify"
  /\ source = "issue"
  /\ \E answered \in BOOLEAN :
       IF ~answered
       THEN /\ failed' = TRUE
            /\ UNCHANGED <<env_status, alert_type>>
       ELSE /\ IF ~issue.comments
               THEN env_status' = "unknown" /\ alert_type' = "offline"
               ELSE IF IssueIsStale(issue.elapsed)
               THEN env_status' = "offline" /\ alert_type' = "offline"
               ELSE env_status' = "online" /\ UNCHANGED alert_type
            /\ UNCHANGED failed
  /\ kpc' = "offline_email"
  /\ UNCHANGED <<heartbeat, issue, source, has_error_logs, emails, history,
                 checks>>
  /\ UNCHANGED <<trimVars, pubVars, colVars, appVars>>

\* Both classification steps are skipped.
SkipClassification ==
  /\ kpc = "classify"
  /\ source = "unknown"
  /\ kpc' = "offline_email"
  /\ UNCHANGED <<heartbeat, issue, source, env_status, alert_type,
                 has_error_logs, failed, emails, history, checks>>
  /\ UNCHANGED <<trimVars, pubVars, colVars, appVars>>

\* Step "Send email notification for offline status": its if has no status
\* function, so it also needs every earlier step to have succeeded.
OfflineEmailStep ==
  /\ kpc = "offline_email"
  /\ emails' = IF ~failed /\ OfflineEmailIf(alert_type, source)
               THEN Append(emails, "offline") ELSE emails
  /\ kpc' = "error_email"
  /\ UNCHANGED <<heartbeat, issue, source, env_status, alert_type,
                 has_error_logs, failed, history, checks>>
  /\ UNCHANGED <<trimVars, pubVars, colVars, appVars>>

\* Step "Send email notification for error logs".
ErrorEmailStep ==
  /\ kpc = "error_email"
  /\ emails' = IF ~failed /\ ErrorEmailIf(alert_type, has_error_logs)
               THEN Append(emails, "error_log") ELSE emails
  /\ kpc' = "history"
  /\ UNCHANGED <<heartbeat, issue, source, env_status, alert_type,
                 has_error_logs, failed, history, checks>>
  /\ UNCHANGED <<trimVars, pubVars, colVars, appVars>>

\* Step "Update check history" (if: always()).
UpdateHistory ==
  /\ kpc = "history"
  /\ history' =
       IF HistoryIf(failed)
       THEN Append(history, HistoryRow(env_status, source, has_error_logs))
       ELSE history
  /\ kpc' = "done"
  /\ UNCHANGED <<heartbeat, issue, source, env_status, alert_type,
                 has_error_logs, failed, emails, checks>>
  /\ UNCHANGED <<trimVars, pubVars, colVars, appVars>>

ChkNext ==
  \/ StartCheck
  \/ CheckSource
  \/ CheckFile
  \/ CheckIssue
  \/ SkipClassification
  \/ OfflineEmailStep
  \/ ErrorEmailStep
  \/ UpdateHistory

SpecCheck == ChkInit /\ [][ChkNext]_vars

\* ---- The crontab: both scripts write to logs/heartbeat.log ----

\* The most entries the heartbeat process appends in a behaviour.
MaxAppends == 2

\* Logs the two scripts leave behind: none, an empty one, and logs whose
\* lines console.log ended with a newline.
AppendLogChoices ==
  { Absent, File(<<>>), File(Join(<<HdrOld, Detail>>) \o <<NL>>),
    File(Join(<<HdrNow>>) \o <<NL>>) }

\* console.log(`Heartbeat update ${statusMessage} at ${timestamp} UTC`)
HeartbeatLine(t) == Frag("Heartbeat update successful", FormatDate(t))

\* Variant: the redirection is > and truncates the log.
OverwriteLine(f, frag) == [f EXCEPT ![LogFile] = File(<<frag, NL>>)]

\* node raspberry_heartbeat.js >> logs/heartbeat.log 2>&1: the line goes
\* to the end of the file the path names, which is created if missing.
AppendLine(f, frag) ==
  [f EXCEPT ![LogFile] = File(f[LogFile].data \o <<frag, NL>>)]

\* The filter has read the log and has not yet renamed the temp file.
BetweenReadAndRename == tpc \in {"loop", "open", "write", "rename"}

AppendInit ==
  /\ clock \in ClockChoices
  /\ fs \in { [log |-> f, tmp |-> Absent] : f \in AppendLogChoices }
  /\ daysToKeep \in DaysChoices
  /\ tpc = "off"
  /\ now = NaN
  /\ cutoffTimestamp = NaN
  /\ lines = <<>>
  /\ idx = 1
  /\ currentTimestamp = NoStamp
  /\ currentTimestampMs = Instant(0, 0)
  /\ keepCurrentBlock = FALSE
  /\ output = <<>>
  /\ console = {}
  /\ runs = 0
  /\ orig = Absent
  /\ kept = <<>>
  /\ prevOutput = <<>>
  /\ PubIdle
  /\ ColIdle
  /\ ChkIdle
  /\ AppIdle

\* The heartbeat process prints its status line, a second or more after
\* whatever happened before; nothing keeps it from doing so while the
\* filter runs.
AppendEntry ==
  /\ Len(appended) < MaxAppends
  /\ clock' = AddMs(clock, 1000)
  /\ fs' = AppendLine(fs, HeartbeatLine(clock'))
  /\ appended' = Append(appended, [frag |-> HeartbeatLine(clock'),
                                    critical |-> BetweenReadAndRename,
                                    run |-> runs])
  /\ UNCHANGED <<daysToKeep, tpc, now, cutoffTimestamp, lines, idx,
                 currentTimestamp, currentTimestampMs, keepCurrentBlock,
                 output, console, runs, orig, kept, prevOutput>>
  /\ UNCHANGED <<pubVars, colVars, chkVars>>

AppendNext == TrimNext \/ AppendEntry

SpecAppend == AppendInit /\ [][AppendNext]_vars

(***************************************************************************)
(* Properties of trimHeartbeatLog                                          *)
(***************************************************************************)
IsHeader(line) == Match(line).kind = "digits"

HeaderTime(line) == ParseUTC(Match(line))

RECURSIVE Count(_, _)
Count(x, sq) ==
  IF sq = <<>> THEN 0
  ELSE (IF Head(sq) = x THEN 1 ELSE 0) + Count(x, Tail(sq))

\* The lines of ls whose flag in ks is set, in order.
RECURSIVE SelectKept(_, _)
SelectKept(ls, ks) ==
  IF ls = <<>> \/ ks = <<>> THEN <<>>
  ELSE (IF Head(ks) THEN <<Head(ls)>> ELSE <<>>) \o SelectKept(Tail(ls), Tail(ks))

\* The run found the log file and has replaced it.
Rewrote == tpc = "returned" /\ orig.exists

\* The lines of the log file as a reader splits them.
Rewritten == Split(fs[LogFile].data)

\* A rewritten log without its last two lines.
Body(w) == SubSeq(w, 1, Len(w) - 2)

\* now minus daysToKeep days of 24 hours.
ExpectedCutoff == Instant(now.sec - daysToKeep.v * SecPerDay, now.ms)

\* The last header line before position i of lines, 0 when there is none.
LastHeaderBefore(i) ==
  LET hs == { j \in 1..(i - 1) : IsHeader(lines[j]) }
  IN  IF hs = {} THEN 0 ELSE CHOOSE j \in hs : \A k \in hs : k <= j

\* C1: for a retention of n >= 0 days, a header line whose timestamp parses
\* to the instant t is in the rewritten log if and only if t >= now - n days
\* (every copy of it is kept or every copy is dropped); t equal to the cutoff
\* is kept.
C1_HeaderKeptIffNotOlderThanCutoff ==
  (Rewrote /\ daysToKeep.kind = "num") =>
    \A i \in 1..Len(lines) :
      (IsHeader(lines[i]) /\ ~HeaderTime(lines[i]).nan) =>
        Count(lines[i], Body(Rewritten)) =
          IF GE(HeaderTime(lines[i]), ExpectedCutoff)
          THEN Count(lines[i], lines) ELSE 0

\* A run that kept a header exactly at the cutoff and dropped an older one.
C1_Witness ==
  /\ Rewrote
  /\ daysToKeep.kind = "num"
  /\ \E i, j \in 1..Len(lines) :
       /\ IsHeader(lines[i])
       /\ HeaderTime(lines[i]) = ExpectedCutoff
       /\ Count(lines[i], Body(Rewritten)) > 0
       /\ IsHeader(lines[j])
       /\ ~HeaderTime(lines[j]).nan
       /\ ~GE(HeaderTime(lines[j]), ExpectedCutoff)
       /\ Count(lines[j], Body(Rewritten)) = 0

\* C2: the rewritten log holds, in order, the lines the loop decided to
\* keep, and a line that is not a header is kept if and only if the last
\* header before it was kept; before any header it is dropped.
C2_ContinuationFollowsHeader ==
  Rewrote =>
    /\ Len(kept) = Len(lines)
    /\ Body(Rewritten) = SelectKept(lines, kept)
    /\ \A i \in 1..Len(lines) :
         ~IsHeader(lines[i]) =>
           (kept[i] <=> (LastHeaderBefore(i) > 0 /\ kept[LastHeaderBefore(i)]))

\* A run with a line dropped before any header and a line kept after a
\* kept header.
C2_Witness ==
  /\ Rewrote
  /\ \E i, j \in 1..Len(lines) :
       /\ ~IsHeader(lines[i]) /\ LastHeaderBefore(i) = 0
       /\ lines[i] # <<>> /\ ~kept[i]
       /\ ~IsHeader(lines[j]) /\ LastHeaderBefore(j) > 0 /\ kept[j]

\* A line with an "at <word> UTC" part and no part of the digit shape.
HasWordStamp(line) ==
  /\ ~IsHeader(line)
  /\ \E k \in 1..Len(line) : line[k].at.kind = "word"

\* A header of the digit shape that is no date.
IsInvalidHeader(line) == IsHeader(line) /\ HeaderTime(line).nan

\* C3 as stated: a line whose header timestamp does not parse, "at banana
\* UTC" included, is dropped and clears keepCurrentBlock, whatever precedes.
C3_UnparseableAlwaysDropped ==
  [][(tpc = "loop" /\ idx <= Len(lines)
        /\ (HasWordStamp(lines[idx]) \/ IsInvalidHeader(lines[idx])))
      => (keepCurrentBlock' = FALSE /\ output' = output /\ tpc' = "loop")]_vars

\* C3 amended: a line that matches the header pattern with digits that are
\* no date is dropped and clears keepCurrentBlock, and the loop goes on; a
\* line such as "at banana UTC" does not match the header pattern and is
\* handled as a continuation line: kept if and only if keepCurrentBlock is
\* set, which it leaves as it is.
C3_InvalidHeaderDropped ==
  [][(tpc = "loop" /\ idx <= Len(lines)) =>
       /\ IsInvalidHeader(lines[idx]) =>
            (keepCurrentBlock' = FALSE /\ output' = output /\ tpc' = "loop")
       /\ HasWordStamp(lines[idx]) =>
            /\ keepCurrentBlock' = keepCurrentBlock
            /\ output' = IF keepCurrentBlock
                         THEN Append(output, lines[idx]) ELSE output
            /\ tpc' = "loop"]_vars

\* The loop has just dropped an invalid header that followed a kept line.
C3_Witness ==
  /\ tpc = "loop"
  /\ idx > 2
  /\ Len(kept) = idx - 1
  /\ IsInvalidHeader(lines[idx - 1])
  /\ kept[idx - 2]
  /\ ~kept[idx - 1]
  /\ ~keepCurrentBlock

\* C4: when the log file existed, the rewritten log is the retained lines
\* followed by exactly two lines: the maintenance line, whose timestamp
\* reads as now cut to the second, and the removed-entries line with the
\* configured number of days.
C4_TrailerAlwaysAppended ==
  Rewrote =>
    LET w == Rewritten
    IN  /\ Len(w) = Len(SelectKept(lines, kept)) + 2
        /\ Body(w) = SelectKept(lines, kept)
        /\ Len(w[Len(w) - 1]) = 1
        /\ w[Len(w) - 1][1].txt = "Heartbeat log maintenance successful"
        /\ ParseUTC(w[Len(w) - 1][1].at) = Instant(now.sec, 0)
        /\ w[Len(w)] = RemovedLine(daysToKeep)

\* A log with entries, all pruned: the rewritten log is the two trailer lines.
C4_Witness ==
  /\ Rewrote
  /\ Len(Rewritten) = 2
  /\ \E i \in 1..Len(lines) : IsHeader(lines[i])

\* A maintenance line without its timestamp, any other line as it is.
MaskLine(l) ==
  IF Len(l) = 1 /\ l[1].txt = "Heartbeat log maintenance successful"
  THEN <<Frag(l[1].txt, NoStamp)>>
  ELSE l

MaskLines(ls) == [i \in 1..Len(ls) |-> MaskLine(ls[i])]

\* This run rewrote the log right after a run that had rewritten it.
SecondRun == Rewrote /\ prevOutput # <<>>

\* C5 as stated: after a second run in immediate succession the log is,
\* trailer timestamps aside, what the first run wrote plus one more trailer
\* pair.
C5_SecondRunKeepsEverything ==
  SecondRun =>
    MaskLines(Rewritten) =
      MaskLines(PushMaintenanceEntry(prevOutput, now, daysToKeep))

\* C5 amended: with a retention of at least one day, a second run in
\* immediate succession keeps the trailer pair of the first run right before
\* its own, and the log is exactly what the first run wrote plus one trailer
\* pair whenever no header the first run wrote is older than the cutoff of
\* the second run.
C5_SecondRunWithinWindow ==
  (SecondRun /\ daysToKeep.kind = "num" /\ daysToKeep.v >= 1) =>
    LET w == Rewritten
        p == prevOutput
    IN  /\ Len(w) >= 4
        /\ w[Len(w) - 3] = p[Len(p) - 1]
        /\ w[Len(w) - 2] = p[Len(p)]
        /\ w[Len(w) - 1] = MaintenanceLine(now)
        /\ w[Len(w)] = RemovedLine(daysToKeep)
        /\ (\A i \in 1..Len(p) :
              IsHeader(p[i]) => GE(HeaderTime(p[i]), ExpectedCutoff))
           => w = p \o <<MaintenanceLine(now), RemovedLine(daysToKeep)>>

\* A second run that kept an entry and the trailer pair of the first run.
C5_Witness ==
  /\ SecondRun
  /\ daysToKeep.kind = "num"
  /\ daysToKeep.v >= 1
  /\ Len(prevOutput) > 2
  /\ Rewritten = prevOutput \o <<MaintenanceLine(now), RemovedLine(daysToKeep)>>

\* C6: from the start of a run up to its rename step the file at the log
\* path is the original log, and from the rename step on it is the complete
\* rewritten log, the retained lines and both trailer lines; the log path
\* never holds anything else.
C6_LogNeverPartial ==
  /\ tpc \in {"check", "read", "loop", "open", "write", "rename", "threw"}
       => fs[LogFile] = orig
  /\ Rewrote =>
       /\ Len(kept) = Len(lines)
       /\ fs[LogFile] =
            File(Join(PushMaintenanceEntry(SelectKept(lines, kept), now, daysToKeep)))

\* The temp file holds the whole new content, which differs from the log,
\* and the log path still holds the original.
C6_Witness ==
  /\ tpc = "rename"
  /\ fs[LogFile] = orig
  /\ orig.data # <<>>
  /\ fs[TempFile].exists
  /\ fs[TempFile].data # orig.data
  /\ fs[TempFile].data = Join(output)

\* C7: a run that finds no log file prints the warning and returns; it never
\* reads, creates the log file or the temp file, or writes a trailer.
C7_MissingLogIsNoOp ==
  (tpc # "off" /\ ~orig.exists) =>
    /\ tpc \in {"check", "returned"}
    /\ fs = [log |-> Absent, tmp |-> Absent]
    /\ tpc = "returned" => console = {"Warning: Log file does not exist"}

\* A run returned from the missing-file branch.
C7_Witness ==
  /\ tpc = "returned"
  /\ ~orig.exists
  /\ runs >= 1
  /\ "Warning: Log file does not exist" \in console
  /\ ~fs[LogFile].exists
  /\ ~fs[TempFile].exists

(***************************************************************************)
(* Properties of the status publisher                                      *)
(***************************************************************************)
\* C8: in every attempt the GET is followed by a PUT, whatever the GET's
\* outcome, and the PUT body carries a sha if and only if the GET of the
\* same attempt answered 200 with a sha, and then it is that sha.
C8_ShaIffGet200 ==
  \A k \in 1..Len(reqs) :
    reqs[k].method = "GET" =>
      /\ k + 1 <= Len(reqs)
      /\ reqs[k + 1].method = "PUT"
      /\ reqs[k + 1].attempt = reqs[k].attempt
      /\ reqs[k + 1].hasSha <=>
           (/\ reqs[k].outcome = "response"
            /\ reqs[k].statusCode = 200
            /\ reqs[k].respSha \in Tokens)
      /\ reqs[k + 1].hasSha => reqs[k + 1].sentSha = reqs[k].respSha

\* One run saw a 200 with a sha, a 404 and a network error, and sent the
\* sha only in the first case.
C8_Witness ==
  /\ Len(reqs) = 6
  /\ reqs[1].outcome = "response" /\ reqs[1].statusCode = 200
  /\ reqs[1].respSha = "s1" /\ reqs[2].hasSha /\ reqs[2].sentSha = "s1"
  /\ reqs[3].outcome = "response" /\ reqs[3].statusCode = 404
  /\ ~reqs[4].hasSha
  /\ reqs[5].outcome = "error" /\ ~reqs[6].hasSha

\* C9: at most 3 attempts; the requests are GET then PUT for attempt 1, 2,
\* 3 in turn; a sha sent in attempt a comes from the GET of attempt a; only
\* the last attempt made can have succeeded; and a finished run either
\* succeeded or made all 3 attempts.
C9_RetryLoop ==
  /\ Len(results) <= 3
  /\ Len(reqs) <= 6
  /\ \A k \in 1..Len(reqs) :
       /\ reqs[k].attempt = (k + 1) \div 2
       /\ reqs[k].method = IF k % 2 = 1 THEN "GET" ELSE "PUT"
       /\ (k % 2 = 0 /\ reqs[k].hasSha) =>
            /\ reqs[k - 1].outcome = "response"
            /\ reqs[k - 1].respSha = reqs[k].sentSha
  /\ \A a \in 1..(Len(results) - 1) : ~results[a].ret
  /\ ppc = "done" =>
       /\ Len(results) >= 1
       /\ Len(reqs) = 2 * Len(results)
       /\ success <=> results[Len(results)].ret
       /\ ~success => Len(results) = 3

\* A run whose third attempt succeeded after two failed ones; the first
\* attempt sent a sha, the second, whose GET answered 404, did not.
C9_Witness ==
  /\ ppc = "done"
  /\ success
  /\ Len(results) = 3
  /\ reqs[2].hasSha
  /\ reqs[3].statusCode = 404
  /\ ~reqs[4].hasSha

\* C10 as stated: a finished run with k attempts has taken exactly k - 1
\* backoff waits, of 2000 ms after attempt 1 and 4000 ms after attempt 2,
\* and none after its last attempt.
C10_WaitsOnlyBetweenAttempts ==
  ppc = "done" =>
    waits = [k \in 1..(Len(results) - 1) |-> k * 2000]

\* C11 as stated: a call of updateGithubFile returns true if and only if
\* the PUT was answered with a 2xx status.
C11_SuccessIffAny2xx ==
  \A a \in 1..Len(results) :
    results[a].ret <=>
      (results[a].outcome = "response" /\ results[a].statusCode \in 200..299)

\* C11 amended: a call of updateGithubFile returns true if and only if the
\* PUT was answered with status 200 or 201; any other status, other 2xx
\* statuses such as 204 included, and a network error make it return false,
\* and after a false return of an attempt numbered less than 3 the run makes
\* another attempt.
C11_SuccessIff200Or201 ==
  /\ \A a \in 1..Len(results) :
       results[a].ret <=>
         (results[a].outcome = "response" /\ results[a].statusCode \in {200, 201})
  /\ ppc = "done" =>
       \A a \in 1..Len(results) :
         (~results[a].ret /\ a < 3) => Len(results) > a

\* A run whose PUT was answered 204 and counted as failed, then rejected,
\* then answered 201 and counted as successful.
C11_Witness ==
  /\ ppc = "done"
  /\ Len(results) = 3
  /\ results[1].statusCode = 204 /\ ~results[1].ret
  /\ results[2].outcome = "error" /\ ~results[2].ret
  /\ results[3].statusCode = 201 /\ results[3].ret

\* The lines "Heartbeat update successful|failed" printed so far.
StatusLines ==
  SelectSeq(plog, LAMBDA l : l \in {"Heartbeat update successful", "Heartbeat update failed"})

\* C12: every call of updateGithubFile returns a boolean, whatever the HTTP
\* calls did; no status line is printed before the loop is over; a finished
\* run has printed exactly one status line, "successful" if and only if some
\* call returned true, and has ended through the normal end of main, never
\* through its catch.
C12_AlwaysReportsAndCompletes ==
  /\ ppc \in {"off", "loop", "get", "put", "ret", "backoff", "done"}
  /\ \A a \in 1..Len(results) : results[a].ret \in BOOLEAN
  /\ ppc # "done" => StatusLines = <<>>
  /\ ppc = "done" =>
       /\ 2 * Len(results) = Len(reqs)
       /\ Len(StatusLines) = 1
       /\ StatusLines[1] = "Heartbeat update successful"
            <=> \E a \in 1..Len(results) : results[a].ret
       /\ \A k \in 1..Len(plog) : plog[k] # "Error in heartbeat process"

\* A run whose three attempts failed, one of them by a rejected PUT, and
\* which reported the failure.
C12_Witness ==
  /\ ppc = "done"
  /\ ~success
  /\ Len(results) = 3
  /\ \E a \in 1..3 : results[a].outcome = "error"
  /\ \E a \in 1..3 : results[a].outcome = "response"
  /\ StatusLines = <<"Heartbeat update failed">>

\* The positions of the directory entries that match the pattern.
Matching == { k \in 1..Len(dir) : dir[k].matches }

\* checkErrorLog has returned.
CheckReturned == cpc \in {"return", "done"}

\* The text of the first k bytes of a file of the model.
PrefixText(kind, size, k) ==
  IF kind = "accent" /\ size >= 2 /\ k = size
    THEN [j \in 1..(size - 1) |-> IF j = size - 1 THEN "e-acute" ELSE "a"]
  ELSE IF kind = "accent" /\ size >= 2 /\ k = size - 1
    THEN [j \in 1..k |-> IF j = k THEN "replacement" ELSE "a"]
  ELSE [j \in 1..k |-> "a"]

C14_StatusInvariantOnEveryPath ==
  CheckReturned =>
    /\ (errorLog.has_error = FALSE => errorLog.log_content = NullContent)
    /\ (errorLog.latest_log = "null" => errorLogFiles = <<>>)

\* The value of a sequence of decimal digits.
RECURSIVE Num(_)
Num(ds) == IF ds = <<>> THEN 0 ELSE 10 * Num(SubSeq(ds, 1, Len(ds) - 1)) + ds[Len(ds)]

\* Entry a encodes a later calendar date than entry b.
LaterDate(a, b) ==
  \/ Num(a.y) > Num(b.y)
  \/ Num(a.y) = Num(b.y) /\ Num(a.m) > Num(b.m)
  \/ Num(a.y) = Num(b.y) /\ Num(a.m) = Num(b.m) /\ Num(a.d) > Num(b.d)

\* C15: once checkErrorLog has listed a directory with a matching name, the
\* file it selects is a matching entry and no matching entry encodes a later
\* calendar date; that file is the latest_log of the object it returns
\* after stat and read.
C15_LatestDateSelected ==
  (cpc \in {"stat", "read", "return", "done"} /\ errorLogFiles # <<>>) =>
    /\ \E k \in Matching :
         /\ dir[k].name = latestLogFile
         /\ \A j \in Matching : ~LaterDate(dir[j], dir[k])
    /\ (CheckReturned /\ ~ioFailed) => errorLog.latest_log = latestLogFile

\* Three files were listed, the oldest first, and the newest was reported.
C15_Witness ==
  /\ cpc = "done"
  /\ ~ioFailed
  /\ Len(dir) = 3
  /\ dir[1].name = "error_2023-12-31.log"
  /\ dir[2].name = "error_2024-06-01.log"
  /\ dir[3].name = "error_2024-05-31.log"
  /\ record.error_log.latest_log = "error_2024-06-01.log"

\* The lookup got a body that is not empty.
Answered(t) == t.outcome = "body" /\ t.text # ""

\* C16: getExternalIp contacts its candidates in list order; no candidate
\* is contacted after one answered with a body that is not empty; it
\* returns that body, or the sentinel when every candidate failed, timed
\* out or answered empty; getSystemInfo goes on after the lookup in every
\* case and the record it returns carries the value.
C16_ExternalIpLookup ==
  /\ Len(tried) <= Len(Candidates)
  /\ \A k \in 1..Len(tried) : tried[k].host = Candidates[k]
  /\ \A k \in 1..(Len(tried) - 1) : ~Answered(tried[k])
  /\ cpc = "ip" => (\A k \in 1..Len(tried) : ~Answered(tried[k]))
  /\ cpc \notin {"off", "ip"} =>
       IF \E k \in 1..Len(tried) : Answered(tried[k])
       THEN externalIp = tried[Len(tried)].text
       ELSE Len(tried) = Len(Candidates) /\ externalIp = Sentinel
  /\ cpc = "done" => record.external_ip = externalIp

\* The first candidate timed out, the second answered, and the record has
\* the answer.
C16_Witness ==
  /\ cpc = "done"
  /\ Len(tried) = 2
  /\ tried[1].outcome = "timeout"
  /\ tried[2].text = "203.0.113.7"
  /\ record.external_ip = "203.0.113.7"

\* The run has classified the Pi from the heartbeat file.
ClassifiedFromFile ==
  /\ kpc \in {"offline_email", "error_email", "history", "done"}
  /\ source = "file"
  /\ ~failed

\* C17 (as claimed): when the heartbeat file is the source and its
\* timestamp converts, the run classifies the Pi as offline if and only if
\* more than 3 hours lie between the timestamp and the check, and as online
\* otherwise.
C17_OfflineIffOlderThan3Hours ==
  ClassifiedFromFile =>
    /\ env_status \in {"offline", "online"}
    /\ env_status = "offline" <=> heartbeat.elapsed > 3 * SecPerHour

\* The run is past both email steps and no step has failed.
EmailsDecided == kpc \in {"history", "done"} /\ ~failed

\* An email of the kind has been sent by the run.
Sent(k) == \E j \in 1..Len(emails) : emails[j] = k

\* The heartbeat file is the source and flags an error log.
PublishedErrorFlag == heartbeat.exists /\ heartbeat.has_error = "true"

\* C18 (as claimed): in a run whose classification completes, the offline
\* email is sent exactly when the Pi is classified offline or no heartbeat
\* source is found, the error-log email exactly when the Pi is classified
\* online and the published status flags an error log, and no run sends
\* more than one email.
C18_EmailsExactlyAsClaimed ==
  EmailsDecided =>
    /\ Sent("offline") <=> (env_status = "offline" \/ source = "unknown")
    /\ Sent("error_log") <=> (env_status = "online" /\ PublishedErrorFlag)
    /\ Len(emails) <= 1

\* C18 (amended): the offline email is also sent when the heartbeat issue
\* is the source and has no comment, a run whose status is unknown; apart
\* from that the emails are as claimed.
C18_EmailsWithUnknownStatus ==
  EmailsDecided =>
    /\ Sent("offline") <=>
         \/ env_status = "offline"
         \/ source = "unknown"
         \/ source = "issue" /\ env_status = "unknown"
    /\ Sent("error_log") <=> (env_status = "online" /\ PublishedErrorFlag)
    /\ Len(emails) <= 1

\* A run found the issue without comments and sent the offline email.
C18_Witness ==
  /\ kpc = "done"
  /\ source = "issue"
  /\ ~issue.comments
  /\ env_status = "unknown"
  /\ emails = <<"offline">>

\* a is b with elements left out: the elements of a occur in b, in the
\* order of a.
RECURSIVE IsSubsequence(_, _)
IsSubsequence(a, b) ==
  IF a = <<>> THEN TRUE
  ELSE IF b = <<>> THEN FALSE
  ELSE IF Head(a) = Head(b) THEN IsSubsequence(Tail(a), Tail(b))
  ELSE IsSubsequence(a, Tail(b))

\* C19: after a run that found the log file, the rewritten log without its
\* last two lines is a subsequence of the lines of the log as the run found
\* it: lines are only dropped, never reordered, repeated, changed or added.
C19_BodyIsSubsequenceOfInput ==
  Rewrote => IsSubsequence(Body(Rewritten), Split(orig.data))

\* A log of three lines was rewritten with two different lines of it.
C19_Witness ==
  /\ Rewrote
  /\ Len(Split(orig.data)) = 3
  /\ Len(Body(Rewritten)) = 2
  /\ Body(Rewritten)[1] # Body(Rewritten)[2]

\* The fragment is in the log file.
Present(frag) ==
  \E j \in 1..Len(fs[LogFile].data) : fs[LogFile].data[j] = frag

\* The entry is inside the retention window of every run up to now.
InWindow(e) == GE(ParseUTC(e.frag.at), CutoffOf(clock, daysToKeep))

\* C20: nothing keeps the heartbeat process from appending while the
\* filter runs; an entry appended after the filter has read the log and
\* before it renames the temp file is not in the log once that run has
\* renamed, and an entry appended at any other time is in the log for as
\* long as it is inside the retention window.
C20_LostOnlyBetweenReadAndRename ==
  \A k \in 1..Len(appended) :
    LET e == appended[k]
    IN  /\ (e.critical /\ runs > e.run) => ~Present(e.frag)
        /\ (~e.critical /\ InWindow(e)) => Present(e.frag)

\* One entry was appended before a run and is in the log after it; another
\* was appended between the read and the rename of the run and is gone.
C20_Witness ==
  /\ tpc = "returned"
  /\ Len(appended) = 2
  /\ ~appended[1].critical
  /\ Present(appended[1].frag)
  /\ appended[2].critical
  /\ runs > appended[2].run
  /\ ~Present(appended[2].frag)

\* The option is there and is a JSON number.
IsNumber(days) == days.kind = "num"

\* An entry of the log the run found whose timestamp is the run's instant.
HasCurrentEntry ==
  \E j \in 1..Len(Split(orig.data)) : Split(orig.data)[j] = HdrNow

IsMaintenanceHeader(line) ==
  \E k \in 1..Len(line) : line[k].txt = "Heartbeat log maintenance successful"

\* The line holds the second line of a trailer pair.
HasRemovedText(line) ==
  \E k \in 1..Len(line) : line[k].txt = "Removed entries older than N days"

\* The log is as the last run left it.
NothingAppendedSince == \A k \in 1..Len(appended) : appended[k].run < runs

\* C22 (as claimed): in the log a run leaves behind, the trailer pairs of
\* earlier runs are whole, a first line followed by its second line and no
\* second line without its first, so a pair is retained or dropped as one;
\* and no header line the run retained, a trailer's included, is older
\* than the cutoff of that run.
C22_TrailerPairsKeptOrDroppedWhole ==
  (Rewrote /\ NothingAppendedSince) =>
    LET w == Body(Rewritten)
    IN  /\ \A j \in 1..Len(w) :
             /\ IsMaintenanceHeader(w[j]) =>
                  (j < Len(w) /\ HasRemovedText(w[j + 1]))
             /\ HasRemovedText(w[j]) =>
                  (j > 1 /\ IsMaintenanceHeader(w[j - 1]))
        /\ ~cutoffTimestamp.nan =>
             \A j \in 1..Len(w) :
               IsHeader(w[j]) => GE(HeaderTime(w[j]), cutoffTimestamp)

\* The row of a run that wrote no status and found a source.
UnknownRow ==
  [status |-> "Unknown", message |-> "Check did not complete successfully",
   error_logs |-> "N/A"]

====
